---- MODULE Spec2Model ----
(***************************************************************************)
(* Model of server.js: the user directory (POST/PATCH/DELETE /users), the  *)
(* WebSocket broadcaster, registration, login, the two second-factor       *)
(* endpoints, GET /users/me and the monitoring timer.                      *)
(*                                                                         *)
(* All store access goes through the single mysql connection `db`, which   *)
(* queues the queries and runs them one at a time in the order of issue:   *)
(* dbq is that queue, and one Db* action runs the head query against the   *)
(* tables and then its callback (with every continuation the callback      *)
(* reaches without yielding to the event loop again). Every query may      *)
(* fail (err), and a send to an observer may throw.                        *)
(*                                                                         *)
(* SpecDir:      directory and register requests, observers that connect   *)
(*               and close.                                                *)
(* SpecRequests: the same requests with one observer that stays connected. *)
(* SpecAuth:     login, second-factor setup and verification, users/me,    *)
(*               and the clock.                                            *)
(* SpecDet:      the monitoring timer and its queries over a log of earlier *)
(*               updates, one delete request, and the clock.               *)
(* SpecEnroll:   second-factor setup by the holder of an earlier token,    *)
(*               with deletes and logins of that user.                     *)
(***************************************************************************)
EXTENDS Integers, Sequences, FiniteSets, TLC

\* ---------------------------------------------------------------- bounds
MaxReqs == 2          \* HTTP requests per behaviour
MaxClients == 2       \* WebSocket connections per behaviour
MaxAdvances == 1      \* clock advances per behaviour
MaxTicks == 2         \* firings of the detector's timer per behaviour

ReqIds == 1..MaxReqs
ClientIds == 1..MaxClients

\* ------------------------------------------------------- input alphabets
NULL == "NULL"                          \* SQL NULL / JS null / undefined
Names == {"n1"}
Emails == {"a@x", "b@x"}
Passwords == {"pw1", "pw2"}
Secrets == {"S1", "S2"}                 \* results of speakeasy.generateSecret
ValidTypes == {"admin", "user"}
BodyTypes == {"user", "guest"}          \* "guest" fails validateUser
NullId == -1                            \* an absent x-user-id header (NULL)
ActorIds == {NullId, 7}                 \* values of the x-user-id header
PathIds == 1..2                         \* values of the :id path parameter

\* ------------------------------------------------------ program constants
PendingTtl == 300        \* expiresIn: '5m'
AccessTtl == 3600        \* expiresIn: '1h'
TotpStep == 30           \* speakeasy default step
TotpWindow == 1          \* window: 1
Deltas == {TotpStep, PendingTtl, AccessTtl}   \* clock advances that are tried
Interval == 60           \* setInterval(..., 60 * 1000)
WindowSecs == 120        \* INTERVAL 2 MINUTE
Threshold == 10          \* HAVING action_count > 10

VARIABLES
    users,      \* table users: a set of rows
    nextId,     \* AUTO_INCREMENT of users.id
    logs,       \* table logs: the sequence of inserted rows
    dbq,        \* queries issued on db and not yet run, oldest first
    reqs,       \* the HTTP requests, by slot
    clients,    \* the WebSocket connections, by slot
    tokens,     \* every token the server has signed so far
    now,        \* the clock, in seconds
    advances,   \* number of clock advances so far
    monitored,  \* table monitored_users: the sequence of inserted rows
    timer,      \* the time the interval timer of the detector is set for
    runs        \* the runs of the detector so far, by tick

vars == <<users, nextId, logs, dbq, reqs, clients, tokens, now, advances,
          monitored, timer, runs>>

\* ------------------------------------------------------------------ rows
UserRow(id, name, email, type, password) ==
    [id |-> id, name |-> name, email |-> email, type |-> type, image |-> NULL,
     password |-> password, two_factor_secret |-> NULL]

NoRow == UserRow(0, NULL, NULL, NULL, NULL)

\* req is bookkeeping: the request whose handler inserted the row.
LogRow(userId, action, entityId, r) ==
    [user_id |-> userId, action |-> action, entity |-> "user",
     entity_id |-> entityId, timestamp |-> now, req |-> r]

\* ---------------------------------------------------------------- tokens
NoToken == [id |-> 0, email |-> NULL, twoFactorVerified |-> FALSE,
            iat |-> 0, exp |-> 0, sig |-> "none"]

\* jwt.sign(payload, JWT_SECRET, {expiresIn}): iat is payload.iat when the payload
\* has one, else the clock; exp is iat + expiresIn.
JwtSign(id, email, verified, iat, ttl) ==
    [id |-> id, email |-> email, twoFactorVerified |-> verified,
     iat |-> iat, exp |-> iat + ttl, sig |-> "ok"]

\* jwt.verify(token, JWT_SECRET): the signature, then exp against the clock.
JwtVerifyOk(t) == t.sig = "ok" /\ now < t.exp

\* ------------------------------------------------------------- responses
NoRes == [status |-> 0, body |-> [none |-> TRUE]]
Res(status, body) == [status |-> status, body |-> body]
ErrorBody(msg) == [error |-> msg]

\* ---------------------------------------------------------------- requests
\* One record per request: the inputs (name, email, type, password, id = :id,
\* userId = x-user-id, token, code), the handler's position pc ("hung": a rejected
\* await nothing catches, "threw": an exception inside a callback; neither writes a
\* response), its locals (user = req.user, secret, hashed, row = results[0]) and what
\* its callbacks were handed (precheck, logErr, thrower = the client whose send threw),
\* committed = its write to users took effect, at = the clock when the code was
\* checked, res = the response written.
NoReq ==
    [kind |-> "none", pc |-> "idle", name |-> NULL, email |-> NULL, type |-> NULL,
     password |-> NULL, id |-> 0, userId |-> NullId, token |-> NoToken,
     user |-> NoToken, code |-> <<NULL, 0>>, secret |-> NULL, hashed |-> NULL,
     row |-> NoRow, at |-> 0, precheck |-> "none", committed |-> FALSE,
     logErr |-> "none", thrower |-> 0, res |-> NoRes]

\* The next free request slot: slots are used in order.
FreeReq(r) == reqs[r].pc = "idle" /\ \A q \in ReqIds : q < r => reqs[q].pc # "idle"

Query(op, r, c) == [op |-> op, req |-> r, client |-> c]

Respond(r, res) == [reqs EXCEPT ![r].pc = "done", ![r].res = res]

\* ---------------------------------------------------------------- clients
NoClient == [readyState |-> "NONE", inbox |-> <<>>]
FreeClient(c) ==
    clients[c].readyState = "NONE"
        /\ \A d \in ClientIds : d < c => clients[d].readyState # "NONE"

Envelope(type, data, allUsers, r) ==
    [type |-> type, data |-> data, allUsers |-> allUsers, req |-> r]

\* ------------------------------------------------------------- broadcast
\* getAllUsers without the rows inserted since the start.
getAllUsers_Cached == {u \in users : u.id < 2}

\* getAllUsers: SELECT * FROM users, every column of every row.
getAllUsers == users

OpenClients == {c \in ClientIds : clients[c].readyState = "OPEN"}

NullData == [null |-> TRUE]

\* The object the directory handlers build for the response and the broadcast.
EntryView(id, name, email, type) ==
    [id |-> id, name |-> name, email |-> email, type |-> type, image |-> NULL]

EventType(r) ==
    CASE reqs[r].kind = "create" -> "USER_ADDED"
      [] reqs[r].kind = "update" -> "USER_UPDATED"
      [] reqs[r].kind = "delete" -> "USER_DELETED"

EventData(r) ==
    IF reqs[r].kind = "delete" THEN [id |-> reqs[r].id]
    ELSE EntryView(reqs[r].id, reqs[r].name, reqs[r].email, reqs[r].type)

SuccessRes(r) ==
    CASE reqs[r].kind = "create" -> Res(201, EventData(r))
      [] reqs[r].kind = "update" -> Res(200, EventData(r))
      [] reqs[r].kind = "delete" -> Res(204, [empty |-> TRUE])

\* wss.clients.forEach(...): the clients are visited in the order they connected;
\* the first send that throws (thrower, 0 when none does) ends the loop.
SendToAll(env, thrower) ==
    [c \in ClientIds |->
        IF c \in OpenClients /\ (thrower = 0 \/ c < thrower)
        THEN [clients[c] EXCEPT !.inbox = Append(@, env)]
        ELSE clients[c]]

\* --------------------------------------------------------- POST /users
StartCreate(r, name, email, type) ==
    /\ FreeReq(r)
    /\ IF type \in ValidTypes
       THEN /\ reqs' = [reqs EXCEPT ![r] = [NoReq EXCEPT !.kind = "create",
                            !.pc = "check", !.name = name, !.email = email, !.type = type]]
            /\ dbq' = Append(dbq, Query("createCheck", r, 0))
       ELSE /\ reqs' = [reqs EXCEPT ![r] = [NoReq EXCEPT !.kind = "create",
                            !.pc = "done", !.name = name, !.email = email, !.type = type,
                            !.res = Res(400, [errors |-> "validation"])]]
            /\ dbq' = dbq
    /\ UNCHANGED <<users, nextId, logs, clients, tokens, now, advances, monitored, timer, runs>>

\* SELECT id FROM users WHERE email = ?
SelectByEmail(email) == {u \in users : u.email = email}

\* callback of the SELECT
DbCreateCheck(err) ==
    /\ dbq # <<>> /\ Head(dbq).op = "createCheck"
    /\ LET r == Head(dbq).req
           results == SelectByEmail(reqs[r].email)
       IN  IF err
           THEN /\ reqs' = [Respond(r, Res(500, ErrorBody("Server error")))
                                EXCEPT ![r].precheck = "err"]
                /\ dbq' = Tail(dbq)
           ELSE IF results # {}
           THEN /\ reqs' = [Respond(r, Res(400, [errors |-> "Email already exists"]))
                                EXCEPT ![r].precheck = "hit"]
                /\ dbq' = Tail(dbq)
           ELSE /\ reqs' = [reqs EXCEPT ![r].pc = "write", ![r].precheck = "miss"]
                /\ dbq' = Append(Tail(dbq), Query("createInsert", r, 0))
    /\ UNCHANGED <<users, nextId, logs, clients, tokens, now, advances, monitored, timer, runs>>

\* callback of INSERT INTO users (name, email, type): no row goes to logs here
DbCreateInsert(err) ==
    /\ dbq # <<>> /\ Head(dbq).op = "createInsert"
    /\ LET r == Head(dbq).req
       IN  IF err
           THEN /\ reqs' = Respond(r, Res(500, ErrorBody("Server error")))
                /\ dbq' = Tail(dbq)
                /\ UNCHANGED <<users, nextId>>
           ELSE /\ users' = users \cup
                        {UserRow(nextId, reqs[r].name, reqs[r].email, reqs[r].type, NULL)}
                /\ nextId' = nextId + 1
                /\ reqs' = [reqs EXCEPT ![r].pc = "broadcast", ![r].id = nextId,
                                        ![r].committed = TRUE]
                /\ dbq' = Append(Tail(dbq), Query("snapshot", r, 0))
    /\ UNCHANGED <<logs, clients, tokens, now, advances, monitored, timer, runs>>

\* ----------------------------------------------------- PATCH /users/:id
StartUpdate(r, id, name, email, type, userId) ==
    /\ FreeReq(r)
    /\ IF type \in ValidTypes
       THEN /\ reqs' = [reqs EXCEPT ![r] = [NoReq EXCEPT !.kind = "update",
                            !.pc = "check", !.id = id, !.name = name, !.email = email,
                            !.type = type, !.userId = userId]]
            /\ dbq' = Append(dbq, Query("updateCheck", r, 0))
       ELSE /\ reqs' = [reqs EXCEPT ![r] = [NoReq EXCEPT !.kind = "update",
                            !.pc = "done", !.id = id, !.name = name, !.email = email,
                            !.type = type, !.userId = userId,
                            !.res = Res(400, [errors |-> "validation"])]]
            /\ dbq' = dbq
    /\ UNCHANGED <<users, nextId, logs, clients, tokens, now, advances, monitored, timer, runs>>

\* SelectByEmailExcept with the comparison of the ids turned round.
SelectByEmailExcept_Same(email, id) == {u \in users : u.email = email /\ u.id = id}

\* SELECT id FROM users WHERE email = ? AND id != ?
SelectByEmailExcept(email, id) == {u \in users : u.email = email /\ u.id # id}

\* callback of the SELECT
DbUpdateCheck(err) ==
    /\ dbq # <<>> /\ Head(dbq).op = "updateCheck"
    /\ LET r == Head(dbq).req
           results == SelectByEmailExcept(reqs[r].email, reqs[r].id)
       IN  IF err
           THEN /\ reqs' = [Respond(r, Res(500, ErrorBody("Server error")))
                                EXCEPT ![r].precheck = "err"]
                /\ dbq' = Tail(dbq)
           ELSE IF results # {}
           THEN /\ reqs' = [Respond(r, Res(400, ErrorBody("Email already exists")))
                                EXCEPT ![r].precheck = "hit"]
                /\ dbq' = Tail(dbq)
           ELSE /\ reqs' = [reqs EXCEPT ![r].pc = "write", ![r].precheck = "miss"]
                /\ dbq' = Append(Tail(dbq), Query("updateWrite", r, 0))
    /\ UNCHANGED <<users, nextId, logs, clients, tokens, now, advances, monitored, timer, runs>>

\* affectedRows with a row counted where none matched.
affectedRows_AtLeastOne(matched) == IF matched = {} THEN 1 ELSE Cardinality(matched)

\* result.affectedRows of an UPDATE or DELETE ... WHERE id = ?
affectedRows(matched) == Cardinality(matched)

\* callback of UPDATE users SET name = ?, email = ?, type = ? WHERE id = ?
DbUpdateWrite(err) ==
    /\ dbq # <<>> /\ Head(dbq).op = "updateWrite"
    /\ LET r == Head(dbq).req
           matched == {u \in users : u.id = reqs[r].id}
       IN  IF err
           THEN /\ reqs' = Respond(r, Res(500, ErrorBody("Server error")))
                /\ dbq' = Tail(dbq)
                /\ users' = users
           ELSE IF affectedRows(matched) = 0
           THEN /\ reqs' = Respond(r, Res(404, ErrorBody("User not found")))
                /\ dbq' = Tail(dbq)
                /\ users' = users
           ELSE /\ users' = (users \ matched) \cup
                        {[u EXCEPT !.name = reqs[r].name, !.email = reqs[r].email,
                                   !.type = reqs[r].type] : u \in matched}
                /\ reqs' = [reqs EXCEPT ![r].pc = "broadcast", ![r].committed = TRUE]
                /\ dbq' = Tail(dbq) \o <<Query("logInsert", r, 0), Query("snapshot", r, 0)>>
    /\ UNCHANGED <<nextId, logs, clients, tokens, now, advances, monitored, timer, runs>>

\* ---------------------------------------------------- DELETE /users/:id
StartDelete(r, id, userId) ==
    /\ FreeReq(r)
    /\ reqs' = [reqs EXCEPT ![r] = [NoReq EXCEPT !.kind = "delete", !.pc = "write",
                                           !.id = id, !.userId = userId]]
    /\ dbq' = Append(dbq, Query("deleteWrite", r, 0))
    /\ UNCHANGED <<users, nextId, logs, clients, tokens, now, advances, monitored, timer, runs>>

\* callback of DELETE FROM users WHERE id = ?
DbDeleteWrite(err) ==
    /\ dbq # <<>> /\ Head(dbq).op = "deleteWrite"
    /\ LET r == Head(dbq).req
           matched == {u \in users : u.id = reqs[r].id}
       IN  IF err
           THEN /\ reqs' = Respond(r, Res(500, ErrorBody("Failed to delete user")))
                /\ dbq' = Tail(dbq)
                /\ users' = users
           ELSE IF affectedRows(matched) = 0
           THEN /\ reqs' = Respond(r, Res(404, ErrorBody("User not found")))
                /\ dbq' = Tail(dbq)
                /\ users' = users
           ELSE /\ users' = users \ matched
                /\ reqs' = [reqs EXCEPT ![r].pc = "broadcast", ![r].committed = TRUE]
                /\ dbq' = Tail(dbq) \o <<Query("logInsert", r, 0), Query("snapshot", r, 0)>>
    /\ UNCHANGED <<nextId, logs, clients, tokens, now, advances, monitored, timer, runs>>

\* callback of INSERT INTO logs (user_id, action, entity, entity_id): an error is
\* printed and nothing else happens.
DbLogInsert(err) ==
    /\ dbq # <<>> /\ Head(dbq).op = "logInsert"
    /\ LET r == Head(dbq).req
       IN  /\ logs' = IF err THEN logs
                       ELSE Append(logs, LogRow(reqs[r].userId, reqs[r].kind, reqs[r].id, r))
           /\ reqs' = [reqs EXCEPT ![r].logErr = IF err THEN "err" ELSE "ok"]
    /\ dbq' = Tail(dbq)
    /\ UNCHANGED <<users, nextId, clients, tokens, now, advances, monitored, timer, runs>>

\* callback of the SELECT of getAllUsers inside broadcastUpdate, then the forEach
\* and, when broadcastUpdate returns, the handler's response. A rejected
\* getAllUsers or a throwing send rejects `await broadcastUpdate(...)` inside the
\* handler's callback, which has no catch: no response is ever written.
DbBroadcastSnapshot(err, thrower) ==
    /\ dbq # <<>> /\ Head(dbq).op = "snapshot"
    /\ LET r == Head(dbq).req
       IN  IF err
           THEN /\ thrower = 0
                /\ reqs' = [reqs EXCEPT ![r].pc = "hung"]
                /\ clients' = clients
           ELSE /\ thrower \in OpenClients \cup {0}
                /\ clients' = SendToAll(Envelope(EventType(r), EventData(r), getAllUsers, r),
                                        thrower)
                /\ reqs' = IF thrower = 0 THEN Respond(r, SuccessRes(r))
                           ELSE [reqs EXCEPT ![r].pc = "hung", ![r].thrower = thrower]
    /\ dbq' = Tail(dbq)
    /\ UNCHANGED <<users, nextId, logs, tokens, now, advances, monitored, timer, runs>>

\* ------------------------------------------------- wss.on('connection')
Connect(c) ==
    /\ FreeClient(c)
    /\ clients' = [clients EXCEPT ![c].readyState = "OPEN"]
    /\ dbq' = Append(dbq, Query("initialSnapshot", 0, c))
    /\ UNCHANGED <<users, nextId, logs, reqs, tokens, now, advances, monitored, timer, runs>>

\* callback of the SELECT of getAllUsers inside the connection handler; both a
\* rejected query and a failed send end in the catch.
DbInitialSnapshot(err) ==
    /\ dbq # <<>> /\ Head(dbq).op = "initialSnapshot"
    /\ LET c == Head(dbq).client
       IN  clients' = IF ~err /\ clients[c].readyState = "OPEN"
                      THEN [clients EXCEPT ![c].inbox =
                                Append(@, Envelope("INITIAL_DATA", NullData, getAllUsers, 0))]
                      ELSE clients
    /\ dbq' = Tail(dbq)
    /\ UNCHANGED <<users, nextId, logs, reqs, tokens, now, advances, monitored, timer, runs>>

\* the transport reports the close: the socket leaves wss.clients
Close(c) ==
    /\ clients[c].readyState = "OPEN"
    /\ clients' = [clients EXCEPT ![c].readyState = "CLOSED"]
    /\ UNCHANGED <<users, nextId, logs, dbq, reqs, tokens, now, advances, monitored, timer, runs>>

\* -------------------------------------------------------- POST /register
StartRegister(r, name, email, password, type) ==
    /\ FreeReq(r)
    /\ reqs' = [reqs EXCEPT ![r] = [NoReq EXCEPT !.kind = "register", !.pc = "check",
                    !.name = name, !.email = email, !.password = password, !.type = type]]
    /\ dbq' = Append(dbq, Query("registerCheck", r, 0))
    /\ UNCHANGED <<users, nextId, logs, clients, tokens, now, advances, monitored, timer, runs>>

\* callback of SELECT id FROM users WHERE email = ?
DbRegisterCheck(err) ==
    /\ dbq # <<>> /\ Head(dbq).op = "registerCheck"
    /\ LET r == Head(dbq).req
           results == SelectByEmail(reqs[r].email)
       IN  reqs' = IF err
                   THEN [Respond(r, Res(500, ErrorBody("Server error")))
                            EXCEPT ![r].precheck = "err"]
                   ELSE IF results # {}
                   THEN [Respond(r, Res(400, ErrorBody("Email already exists")))
                            EXCEPT ![r].precheck = "hit"]
                   ELSE [reqs EXCEPT ![r].pc = "hash", ![r].precheck = "miss"]
    /\ dbq' = Tail(dbq)
    /\ UNCHANGED <<users, nextId, logs, clients, tokens, now, advances, monitored, timer, runs>>

\* bcrypt.hash(password, 10) and bcrypt.compare(password, hash)
BcryptHash(p) == CASE p = "pw1" -> "$2b$10$pw1" [] p = "pw2" -> "$2b$10$pw2"
BcryptCompare(p, h) == h = BcryptHash(p)

\* await bcrypt.hash(...) returns, the INSERT is issued
RegisterHashed(r) ==
    /\ reqs[r].kind = "register" /\ reqs[r].pc = "hash"
    /\ reqs' = [reqs EXCEPT ![r].pc = "write", ![r].hashed = BcryptHash(reqs[r].password)]
    /\ dbq' = Append(dbq, Query("registerInsert", r, 0))
    /\ UNCHANGED <<users, nextId, logs, clients, tokens, now, advances, monitored, timer, runs>>

\* callback of INSERT INTO users (name, email, password, type)
DbRegisterInsert(err) ==
    /\ dbq # <<>> /\ Head(dbq).op = "registerInsert"
    /\ LET r == Head(dbq).req
       IN  IF err
           THEN /\ reqs' = Respond(r, Res(500, ErrorBody("Server error")))
                /\ UNCHANGED <<users, nextId>>
           ELSE /\ users' = users \cup {UserRow(nextId, reqs[r].name, reqs[r].email,
                                                reqs[r].type, reqs[r].hashed)}
                /\ nextId' = nextId + 1
                /\ reqs' = [Respond(r, Res(201, [id |-> nextId, name |-> reqs[r].name,
                                email |-> reqs[r].email, type |-> reqs[r].type]))
                                EXCEPT ![r].id = nextId, ![r].committed = TRUE]
    /\ dbq' = Tail(dbq)
    /\ UNCHANGED <<logs, clients, tokens, now, advances, monitored, timer, runs>>

\* ------------------------------------------------------ authenticateToken
\* What the middleware answers, NoRes when it calls next().
AuthReject(token) ==
    IF token.sig = "none" THEN Res(401, ErrorBody("Access token required"))
    ELSE IF ~JwtVerifyOk(token) THEN Res(403, ErrorBody("Invalid or expired token"))
    ELSE NoRes

authenticateToken(token) == AuthReject(token) = NoRes

Forged == [NoToken EXCEPT !.id = 1, !.sig = "bad", !.exp = AccessTtl]
Presentable == tokens \cup {NoToken, Forged}

\* A handler behind authenticateToken: rejected at once, or req.user is set and
\* the handler issues its query.
StartAuthed(r, kind, token, op, code, secret) ==
    /\ FreeReq(r)
    /\ token \in Presentable
    /\ IF authenticateToken(token)
       THEN /\ reqs' = [reqs EXCEPT ![r] = [NoReq EXCEPT !.kind = kind, !.pc = "query",
                            !.token = token, !.user = token, !.code = code,
                            !.secret = secret]]
            /\ dbq' = Append(dbq, Query(op, r, 0))
       ELSE /\ reqs' = [reqs EXCEPT ![r] = [NoReq EXCEPT !.kind = kind, !.pc = "done",
                            !.token = token, !.code = code, !.res = AuthReject(token)]]
            /\ dbq' = dbq
    /\ UNCHANGED <<users, nextId, logs, clients, tokens, now, advances, monitored, timer, runs>>

\* ------------------------------------------------------------ POST /login
StartLogin(r, email, password) ==
    /\ FreeReq(r)
    /\ reqs' = [reqs EXCEPT ![r] = [NoReq EXCEPT !.kind = "login", !.pc = "query",
                                           !.email = email, !.password = password]]
    /\ dbq' = Append(dbq, Query("loginQuery", r, 0))
    /\ UNCHANGED <<users, nextId, logs, clients, tokens, now, advances, monitored, timer, runs>>

\* callback of SELECT * FROM users WHERE email = ?, up to await bcrypt.compare
DbLogin(err, user) ==
    /\ dbq # <<>> /\ Head(dbq).op = "loginQuery"
    /\ LET r == Head(dbq).req
           results == SelectByEmail(reqs[r].email)
       IN  IF err
           THEN /\ user = NoRow
                /\ reqs' = Respond(r, Res(500, ErrorBody("Server error")))
           ELSE IF results = {}
           THEN /\ user = NoRow
                /\ reqs' = Respond(r, Res(401, ErrorBody("Invalid credentials")))
           ELSE /\ user \in results
                /\ reqs' = [reqs EXCEPT ![r].pc = "compare", ![r].row = user]
    /\ dbq' = Tail(dbq)
    /\ UNCHANGED <<users, nextId, logs, clients, tokens, now, advances, monitored, timer, runs>>

\* UserResponse with the row itself sent back.
UserResponse_WholeRow(user) == user

\* The profile object of the login response.
UserResponse(user) ==
    [id |-> user.id, email |-> user.email, name |-> user.name, type |-> user.type]

\* jwt.sign({id, email}, JWT_SECRET, {expiresIn: '5m'})
TempToken(user) == JwtSign(user.id, user.email, FALSE, now, PendingTtl)

\* jwt.sign({id, email}, JWT_SECRET, {expiresIn: '1h'})
AccessToken(user) == JwtSign(user.id, user.email, FALSE, now, AccessTtl)

\* await bcrypt.compare(...) returns; it rejects when the row has no password,
\* and nothing catches that.
LoginCompared(r) ==
    /\ reqs[r].kind = "login" /\ reqs[r].pc = "compare"
    /\ LET user == reqs[r].row
       IN  IF user.password = NULL
           THEN /\ reqs' = [reqs EXCEPT ![r].pc = "hung"]
                /\ tokens' = tokens
           ELSE IF ~BcryptCompare(reqs[r].password, user.password)
           THEN /\ reqs' = Respond(r, Res(401, ErrorBody("Invalid credentials")))
                /\ tokens' = tokens
           ELSE IF user.two_factor_secret # NULL
           THEN LET tempToken == TempToken(user)
                IN  /\ reqs' = Respond(r, Res(200, [requiresTwoFactor |-> TRUE,
                                                    tempToken |-> tempToken]))
                    /\ tokens' = tokens \cup {tempToken}
           ELSE LET accessToken == AccessToken(user)
                IN  /\ reqs' = Respond(r, Res(200, [accessToken |-> accessToken,
                                                    user |-> UserResponse(user)]))
                    /\ tokens' = tokens \cup {accessToken}
    /\ UNCHANGED <<users, nextId, logs, dbq, clients, now, advances, monitored, timer, runs>>

\* --------------------------------------------------------- POST /2fa/setup
StartSetup(r, token, secret) == StartAuthed(r, "setup", token, "setupWrite", <<NULL, 0>>, secret)

\* callback of UPDATE users SET two_factor_secret = ? WHERE id = ?
DbSetupWrite(err) ==
    /\ dbq # <<>> /\ Head(dbq).op = "setupWrite"
    /\ LET r == Head(dbq).req
           matched == {u \in users : u.id = reqs[r].user.id}
       IN  IF err
           THEN /\ reqs' = Respond(r, Res(500, ErrorBody("Failed to setup 2FA")))
                /\ users' = users
           ELSE /\ users' = (users \ matched) \cup
                        {[u EXCEPT !.two_factor_secret = reqs[r].secret] : u \in matched}
                /\ reqs' = [reqs EXCEPT ![r].pc = "qr", ![r].committed = matched # {}]
    /\ dbq' = Tail(dbq)
    /\ UNCHANGED <<nextId, logs, clients, tokens, now, advances, monitored, timer, runs>>

\* callback of QRCode.toDataURL
SetupQr(r, err) ==
    /\ reqs[r].kind = "setup" /\ reqs[r].pc = "qr"
    /\ reqs' = IF err THEN Respond(r, Res(500, ErrorBody("Failed to generate QR code")))
               ELSE Respond(r, Res(200, [secret |-> reqs[r].secret,
                                         qrCode |-> <<"otpauth", reqs[r].secret>>]))
    /\ UNCHANGED <<users, nextId, logs, dbq, clients, tokens, now, advances, monitored, timer, runs>>

\* -------------------------------------------------------- POST /2fa/verify
\* The code of a secret for one counter value; distinct inputs give distinct codes.
Totp(secret, counter) == <<secret, counter>>

\* TotpVerify with the window ignored: the counter of the clock alone.
TotpVerify_NoWindow(secret, code, t) == code = Totp(secret, t \div TotpStep)

\* speakeasy.totp.verify({secret, token, window}): the counter of the clock, and
\* the counters from window below it to window above it.
TotpVerify(secret, code, t) ==
    \E d \in (0 - TotpWindow)..TotpWindow : code = Totp(secret, (t \div TotpStep) + d)

\* The codes that are tried: those of one secret for the steps around the clock's,
\* and another secret's code for the clock's step.
Codes ==
    {Totp("S1", (now \div TotpStep) + d) : d \in {-2, -1, 0, 1, 2}}
        \cup {Totp("S2", now \div TotpStep)}

StartVerify(r, token, code) == StartAuthed(r, "verify", token, "verifyQuery", code, NULL)

\* VerifiedToken with the flag left out of the payload.
VerifiedToken_NoFlag(user) == JwtSign(user.id, user.email, FALSE, user.iat, AccessTtl)

\* jwt.sign({...req.user, twoFactorVerified: true} without exp, JWT_SECRET,
\* {expiresIn: '1h'}): the payload keeps the iat of the presented token.
VerifiedToken(user) == JwtSign(user.id, user.email, TRUE, user.iat, AccessTtl)

\* callback of SELECT two_factor_secret FROM users WHERE id = ?; speakeasy throws
\* on a null secret, inside the callback.
DbVerify(err) ==
    /\ dbq # <<>> /\ Head(dbq).op = "verifyQuery"
    /\ LET r == Head(dbq).req
           results == {u \in users : u.id = reqs[r].user.id}
       IN  IF err \/ results = {}
           THEN /\ reqs' = Respond(r, Res(500, ErrorBody("Failed to verify 2FA")))
                /\ tokens' = tokens
           ELSE LET secret == (CHOOSE u \in results : TRUE).two_factor_secret
                    accessToken == VerifiedToken(reqs[r].user)
                    seen == [reqs EXCEPT ![r].secret = secret, ![r].at = now]
                IN  IF secret = NULL
                    THEN /\ reqs' = [reqs EXCEPT ![r].pc = "threw"]
                         /\ tokens' = tokens
                    ELSE IF TotpVerify(secret, reqs[r].code, now)
                    THEN /\ reqs' = [seen EXCEPT ![r].pc = "done",
                                         ![r].res = Res(200, [accessToken |-> accessToken])]
                         /\ tokens' = tokens \cup {accessToken}
                    ELSE /\ reqs' = [seen EXCEPT ![r].pc = "done",
                                ![r].res = Res(401, ErrorBody("Invalid 2FA token"))]
                         /\ tokens' = tokens
    /\ dbq' = Tail(dbq)
    /\ UNCHANGED <<users, nextId, logs, clients, now, advances, monitored, timer, runs>>

\* ----------------------------------------------------------- GET /users/me
StartMe(r, token) == StartAuthed(r, "me", token, "meQuery", <<NULL, 0>>, NULL)

\* callback of SELECT id, name, email, type FROM users WHERE id = ?
DbMe(err) ==
    /\ dbq # <<>> /\ Head(dbq).op = "meQuery"
    /\ LET r == Head(dbq).req
           results == {u \in users : u.id = reqs[r].user.id}
       IN  reqs' = IF err \/ results = {}
                   THEN Respond(r, Res(404, ErrorBody("User not found")))
                   ELSE LET u == CHOOSE u \in results : TRUE
                        IN  Respond(r, Res(200, [id |-> u.id, name |-> u.name,
                                                 email |-> u.email, type |-> u.type]))
    /\ dbq' = Tail(dbq)
    /\ UNCHANGED <<users, nextId, logs, clients, tokens, now, advances, monitored, timer, runs>>

\* ------------------------------------------------------------------ clock
Advance(d) ==
    /\ advances < MaxAdvances
    /\ now' = now + d
    /\ advances' = advances + 1
    /\ UNCHANGED <<users, nextId, logs, dbq, reqs, clients, tokens, monitored, timer, runs>>

\* ------------------------------------------------- setInterval (monitoring)
\* One record per run of the detector: pc ("query": its SELECT is queued, "insert":
\* the inserts it issued are queued, "done", "failed": the SELECT failed), at = the
\* clock when the SELECT ran, results = the rows it returned, pending = the inserts
\* issued and not yet run, failed = the inserts that failed.
NewRun == [pc |-> "query", at |-> 0, results |-> {}, pending |-> 0, failed |-> 0]

DetQuery(op, k, row) == [op |-> op, req |-> 0, client |-> 0, run |-> k, row |-> row]

NoFlag == [user_id |-> 0, action_count |-> 0]

\* the timer fires, when the clock has reached the time it was set for, and is set
\* again; the callback issues the SELECT whatever the state of the earlier runs
Tick ==
    /\ Len(runs) < MaxTicks
    /\ now' = IF now < timer THEN timer ELSE now
    /\ timer' = now' + Interval
    /\ runs' = Append(runs, NewRun)
    /\ dbq' = Append(dbq, DetQuery("detectQuery", Len(runs) + 1, NoFlag))
    /\ UNCHANGED <<users, nextId, logs, reqs, clients, tokens, advances, monitored>>

\* WHERE timestamp > (NOW() - INTERVAL 2 MINUTE) AND user_id IS NOT NULL AND user_id != 0
InWindow(row) ==
    /\ row.timestamp > now - WindowSecs
    /\ row.user_id # NullId /\ row.user_id # 0

\* COUNT(*) of the group of user_id a
ActionCount(a) ==
    Cardinality({i \in DOMAIN logs : InWindow(logs[i]) /\ logs[i].user_id = a})

\* OverThreshold with the bound included.
OverThreshold_AtLeast(count) == count >= Threshold

\* HAVING action_count > 10
OverThreshold(count) == count > Threshold

\* the rows of the SELECT ... GROUP BY user_id HAVING ...
SuspiciousRows ==
    {[user_id |-> a, action_count |-> ActionCount(a)] :
        a \in {logs[i].user_id : i \in {j \in DOMAIN logs : InWindow(logs[j])
                                            /\ OverThreshold(ActionCount(logs[j].user_id))}}}

\* results.forEach: the rows in the order of their user_id
RECURSIVE RowsInOrder(_)
RowsInOrder(S) ==
    IF S = {} THEN <<>>
    ELSE LET m == CHOOSE x \in S : \A y \in S : x.user_id <= y.user_id
         IN  <<m>> \o RowsInOrder(S \ {m})

\* DbDetectQuery going on to the inserts after it printed the error.
DbDetectQuery_NoReturn(err) ==
    /\ dbq # <<>> /\ Head(dbq).op = "detectQuery"
    /\ LET k == Head(dbq).run
           results == SuspiciousRows
           rows == RowsInOrder(results)
       IN  /\ runs' = [runs EXCEPT ![k].pc = IF err THEN "failed"
                                             ELSE IF results = {} THEN "done" ELSE "insert",
                                   ![k].at = now, ![k].results = results,
                                   ![k].pending = Len(rows)]
           /\ dbq' = Tail(dbq) \o [i \in DOMAIN rows |-> DetQuery("flagInsert", k, rows[i])]
    /\ UNCHANGED <<users, nextId, logs, reqs, clients, tokens, now, advances, monitored, timer>>

\* callback of the SELECT: an error is printed and the run ends; otherwise one
\* INSERT IGNORE is issued per row
DbDetectQuery(err) ==
    /\ dbq # <<>> /\ Head(dbq).op = "detectQuery"
    /\ LET k == Head(dbq).run
           results == SuspiciousRows
           rows == RowsInOrder(results)
       IN  IF err
           THEN /\ runs' = [runs EXCEPT ![k].pc = "failed", ![k].at = now]
                /\ dbq' = Tail(dbq)
           ELSE /\ runs' = [runs EXCEPT ![k].pc = IF results = {} THEN "done" ELSE "insert",
                                        ![k].at = now, ![k].results = results,
                                        ![k].pending = Len(rows)]
                /\ dbq' = Tail(dbq) \o [i \in DOMAIN rows |-> DetQuery("flagInsert", k, rows[i])]
    /\ UNCHANGED <<users, nextId, logs, reqs, clients, tokens, now, advances, monitored, timer>>

\* The key of monitored_users that INSERT IGNORE goes by: the user_id.
Conflicts(uid) == \E i \in DOMAIN monitored : monitored[i].user_id = uid

FlagRow(row) ==
    [user_id |-> row.user_id, reason |-> <<"High frequency", row.action_count>>,
     detected_at |-> now]

\* InsertIgnore as a plain INSERT.
InsertIgnore_Plain(row) == Append(monitored, FlagRow(row))

\* INSERT IGNORE INTO monitored_users (user_id, reason, detected_at) VALUES (?, ?, NOW())
InsertIgnore(row) ==
    IF Conflicts(row.user_id) THEN monitored ELSE Append(monitored, FlagRow(row))

\* callback of the INSERT IGNORE: an error is printed and nothing else happens
DbFlagInsert(err) ==
    /\ dbq # <<>> /\ Head(dbq).op = "flagInsert"
    /\ LET k == Head(dbq).run
           left == runs[k].pending - 1
       IN  /\ monitored' = IF err THEN monitored ELSE InsertIgnore(Head(dbq).row)
           /\ runs' = [runs EXCEPT ![k].pending = left,
                                   ![k].failed = IF err THEN @ + 1 ELSE @,
                                   ![k].pc = IF left = 0 THEN "done" ELSE "insert"]
    /\ dbq' = Tail(dbq)
    /\ UNCHANGED <<users, nextId, logs, reqs, clients, tokens, now, advances, timer>>

\* ---------------------------------------------------------- specifications
Quiet ==
    /\ logs = <<>> /\ dbq = <<>>
    /\ reqs = [r \in ReqIds |-> NoReq]
    /\ clients = [c \in ClientIds |-> NoClient]
    /\ tokens = {}
    /\ now = 0 /\ advances = 0
    /\ monitored = <<>> /\ timer = Interval /\ runs = <<>>

\* The directory and its observers, over a registry holding one entry.
Seed1 == UserRow(1, "n1", "a@x", "user", NULL)

InitDir ==
    /\ users = {Seed1}
    /\ nextId = 2
    /\ Quiet

NextDir ==
    \/ \E r \in ReqIds, n \in Names, e \in Emails, t \in BodyTypes : StartCreate(r, n, e, t)
    \/ \E err \in BOOLEAN : DbCreateCheck(err)
    \/ \E err \in BOOLEAN : DbCreateInsert(err)
    \/ \E r \in ReqIds, id \in PathIds, n \in Names, e \in Emails, t \in BodyTypes,
          a \in ActorIds : StartUpdate(r, id, n, e, t, a)
    \/ \E err \in BOOLEAN : DbUpdateCheck(err)
    \/ \E err \in BOOLEAN : DbUpdateWrite(err)
    \/ \E r \in ReqIds, id \in PathIds, a \in ActorIds : StartDelete(r, id, a)
    \/ \E err \in BOOLEAN : DbDeleteWrite(err)
    \/ \E err \in BOOLEAN : DbLogInsert(err)
    \/ \E err \in BOOLEAN, k \in ClientIds \cup {0} : DbBroadcastSnapshot(err, k)
    \/ \E c \in ClientIds : Connect(c)
    \/ \E err \in BOOLEAN : DbInitialSnapshot(err)
    \/ \E c \in ClientIds : Close(c)
    \/ \E r \in ReqIds, n \in Names, e \in Emails : StartRegister(r, n, e, "pw1", "user")
    \/ \E err \in BOOLEAN : DbRegisterCheck(err)
    \/ \E r \in ReqIds : RegisterHashed(r)
    \/ \E err \in BOOLEAN : DbRegisterInsert(err)

SpecDir == InitDir /\ [][NextDir]_vars

\* The requests alone, with one observer that connected earlier and stays.
InitRequests ==
    /\ users = {Seed1}
    /\ nextId = 2
    /\ logs = <<>> /\ dbq = <<>>
    /\ reqs = [r \in ReqIds |-> NoReq]
    /\ clients = [c \in ClientIds |->
            IF c = 1
            THEN [readyState |-> "OPEN",
                  inbox |-> <<Envelope("INITIAL_DATA", NullData, {Seed1}, 0)>>]
            ELSE NoClient]
    /\ tokens = {}
    /\ now = 0 /\ advances = 0
    /\ monitored = <<>> /\ timer = Interval /\ runs = <<>>

NextRequests ==
    \/ \E r \in ReqIds, n \in Names, e \in Emails, t \in BodyTypes : StartCreate(r, n, e, t)
    \/ \E err \in BOOLEAN : DbCreateCheck(err)
    \/ \E err \in BOOLEAN : DbCreateInsert(err)
    \/ \E r \in ReqIds, id \in PathIds, n \in Names, e \in Emails, t \in BodyTypes,
          a \in ActorIds : StartUpdate(r, id, n, e, t, a)
    \/ \E err \in BOOLEAN : DbUpdateCheck(err)
    \/ \E err \in BOOLEAN : DbUpdateWrite(err)
    \/ \E r \in ReqIds, id \in PathIds, a \in ActorIds : StartDelete(r, id, a)
    \/ \E err \in BOOLEAN : DbDeleteWrite(err)
    \/ \E err \in BOOLEAN : DbLogInsert(err)
    \/ \E err \in BOOLEAN, k \in ClientIds \cup {0} : DbBroadcastSnapshot(err, k)
    \/ \E r \in ReqIds, n \in Names, e \in Emails : StartRegister(r, n, e, "pw1", "user")
    \/ \E err \in BOOLEAN : DbRegisterCheck(err)
    \/ \E r \in ReqIds : RegisterHashed(r)
    \/ \E err \in BOOLEAN : DbRegisterInsert(err)

SpecRequests == InitRequests /\ [][NextRequests]_vars

\* Authentication, over a registry with a registered user (second factor enrolled
\* or not) and an entry added through the directory, which has no password.
Registered(secret) ==
    [UserRow(1, "n1", "a@x", "user", BcryptHash("pw1")) EXCEPT !.two_factor_secret = secret]
Added == UserRow(2, "n1", "b@x", "admin", NULL)

InitAuth ==
    /\ \E s \in {NULL, "S1"} : users = {Registered(s), Added}
    /\ nextId = 3
    /\ Quiet

NextAuth ==
    \/ \E r \in ReqIds, e \in Emails, p \in Passwords : StartLogin(r, e, p)
    \/ \E err \in BOOLEAN, u \in users \cup {NoRow} : DbLogin(err, u)
    \/ \E r \in ReqIds : LoginCompared(r)
    \/ \E r \in ReqIds, t \in Presentable, s \in Secrets : StartSetup(r, t, s)
    \/ \E err \in BOOLEAN : DbSetupWrite(err)
    \/ \E r \in ReqIds, err \in BOOLEAN : SetupQr(r, err)
    \/ \E r \in ReqIds, t \in Presentable, c \in Codes : StartVerify(r, t, c)
    \/ \E err \in BOOLEAN : DbVerify(err)
    \/ \E r \in ReqIds, t \in Presentable : StartMe(r, t)
    \/ \E err \in BOOLEAN : DbMe(err)
    \/ \E d \in Deltas : Advance(d)

SpecAuth == InitAuth /\ [][NextAuth]_vars

\* The detector, half an interval after the process started, over a log left by
\* earlier updates of entry 1 (n by one actor, m by actor 8, all made at the time
\* t), with one request of actor 7 to delete entry 1, which adds to it.
DetActors == {NullId, 0, 7}             \* values of the x-user-id header

SeedLog(a, n, t) ==
    [i \in 1..n |-> [user_id |-> a, action |-> "update", entity |-> "user",
                     entity_id |-> 1, timestamp |-> t, req |-> 0]]

InitDet ==
    /\ users = {Seed1}
    /\ nextId = 2
    /\ \E a \in DetActors, n \in {Threshold, Threshold + 1}, m \in {0, Threshold + 1},
          t \in {0, Interval \div 2} :
            logs = SeedLog(a, n, t) \o SeedLog(8, m, t)
    /\ dbq = <<>>
    /\ reqs = [r \in ReqIds |-> NoReq]
    /\ clients = [c \in ClientIds |-> NoClient]
    /\ tokens = {}
    /\ now = Interval \div 2 /\ advances = 0
    /\ monitored = <<>> /\ timer = Interval /\ runs = <<>>

NextDet ==
    \/ Tick
    \/ \E err \in BOOLEAN : DbDetectQuery(err)
    \/ \E err \in BOOLEAN : DbFlagInsert(err)
    \/ StartDelete(1, 1, 7)
    \/ \E err \in BOOLEAN : DbDeleteWrite(err)
    \/ \E err \in BOOLEAN : DbLogInsert(err)
    \/ \E err \in BOOLEAN : DbBroadcastSnapshot(err, 0)
    \/ Advance(Interval \div 2)

SpecDet == InitDet /\ [][NextDet]_vars

\* Enrollment, for a registered user who logged in earlier and holds the token of
\* that login, with requests that delete entries and logins that follow.
Earlier == JwtSign(1, "a@x", FALSE, 0, AccessTtl)

InitEnroll ==
    /\ users = {Registered(NULL), Added}
    /\ nextId = 3
    /\ logs = <<>> /\ dbq = <<>>
    /\ reqs = [r \in ReqIds |-> NoReq]
    /\ clients = [c \in ClientIds |-> NoClient]
    /\ tokens = {Earlier}
    /\ now = 0 /\ advances = 0
    /\ monitored = <<>> /\ timer = Interval /\ runs = <<>>

NextEnroll ==
    \/ \E r \in ReqIds, t \in Presentable, s \in Secrets : StartSetup(r, t, s)
    \/ \E err \in BOOLEAN : DbSetupWrite(err)
    \/ \E r \in ReqIds, err \in BOOLEAN : SetupQr(r, err)
    \/ \E r \in ReqIds, id \in PathIds : StartDelete(r, id, NullId)
    \/ \E err \in BOOLEAN : DbDeleteWrite(err)
    \/ \E err \in BOOLEAN : DbLogInsert(err)
    \/ \E err \in BOOLEAN : DbBroadcastSnapshot(err, 0)
    \/ \E r \in ReqIds, p \in Passwords : StartLogin(r, "a@x", p)
    \/ \E err \in BOOLEAN, u \in users \cup {NoRow} : DbLogin(err, u)
    \/ \E r \in ReqIds : LoginCompared(r)

SpecEnroll == InitEnroll /\ [][NextEnroll]_vars

\* ================================================================ claims
\* A pending token: signed by login for a user with a second factor enrolled, so
\* with the 5-minute lifetime and without the verified flag.
IsPending(t) == t.sig = "ok" /\ ~t.twoFactorVerified /\ t.exp - t.iat = PendingTtl

\* C1: a pending token is never accepted by an operation that requires a verified
\* token: POST /2fa/setup and GET /users/me answer a request that presents one with
\* a rejection, at once, and the request changes no state.
C1_PendingTokenRejected ==
    \A r \in ReqIds :
        (reqs[r].kind \in {"setup", "me"} /\ IsPending(reqs[r].token))
            => /\ reqs[r].pc = "done"
               /\ reqs[r].res.status \in {401, 403}
               /\ ~reqs[r].committed

\* The password of the request is the one the row it found was registered with.
CorrectPassword(r) ==
    /\ reqs[r].kind = "login"
    /\ reqs[r].row # NoRow
    /\ reqs[r].row.password # NULL
    /\ reqs[r].row.password = BcryptHash(reqs[r].password)

\* C9: a login with the correct password for a user with a second factor enrolled
\* is answered with requiresTwoFactor = true and a pending token of that user and
\* nothing else; a verify request that presented a pending token and whose code is,
\* when it is checked, the code of the stored secret for the current step is
\* answered with a token of the same user that carries the verified flag.
C9_ChallengeThenVerified ==
    /\ \A r \in ReqIds :
        (CorrectPassword(r) /\ reqs[r].pc = "done" /\ reqs[r].row.two_factor_secret # NULL)
            => /\ reqs[r].res.status = 200
               /\ DOMAIN reqs[r].res.body = {"requiresTwoFactor", "tempToken"}
               /\ reqs[r].res.body.requiresTwoFactor = TRUE
               /\ IsPending(reqs[r].res.body.tempToken)
               /\ reqs[r].res.body.tempToken.id = reqs[r].row.id
               /\ reqs[r].res.body.tempToken.email = reqs[r].row.email
    /\ \A r \in ReqIds :
        (/\ reqs[r].kind = "verify" /\ reqs[r].pc = "done"
         /\ IsPending(reqs[r].token)
         /\ reqs[r].secret # NULL
         /\ reqs[r].code = <<reqs[r].secret, reqs[r].at \div TotpStep>>)
            => /\ reqs[r].res.status = 200
               /\ DOMAIN reqs[r].res.body = {"accessToken"}
               /\ reqs[r].res.body.accessToken.sig = "ok"
               /\ reqs[r].res.body.accessToken.twoFactorVerified = TRUE
               /\ reqs[r].res.body.accessToken.id = reqs[r].token.id
               /\ reqs[r].res.body.accessToken.email = reqs[r].token.email

\* C9's case: the challenge of a login has been answered with a verified token.
C9_Witness ==
    \E r, q \in ReqIds :
        /\ CorrectPassword(r) /\ reqs[r].pc = "done"
        /\ reqs[r].res.status = 200
        /\ "tempToken" \in DOMAIN reqs[r].res.body
        /\ reqs[q].kind = "verify" /\ reqs[q].pc = "done"
        /\ reqs[q].token = reqs[r].res.body.tempToken
        /\ reqs[q].res.status = 200
        /\ reqs[q].res.body.accessToken.twoFactorVerified

\* C10: a login with the correct password for a user with no second factor is
\* answered with a token of one hour's lifetime for that user and a profile made of
\* exactly id, email, name and type, and with nothing else.
C10_DirectLogin ==
    \A r \in ReqIds :
        (CorrectPassword(r) /\ reqs[r].pc = "done" /\ reqs[r].row.two_factor_secret = NULL)
            => /\ reqs[r].res.status = 200
               /\ DOMAIN reqs[r].res.body = {"accessToken", "user"}
               /\ reqs[r].res.body.accessToken.sig = "ok"
               /\ reqs[r].res.body.accessToken.id = reqs[r].row.id
               /\ reqs[r].res.body.accessToken.exp
                      = reqs[r].res.body.accessToken.iat + AccessTtl
               /\ DOMAIN reqs[r].res.body.user = {"id", "email", "name", "type"}
               /\ \A f \in {"id", "email", "name", "type"} :
                      reqs[r].res.body.user[f] = reqs[r].row[f]

\* C10's case: such a login has been answered.
C10_Witness ==
    \E r \in ReqIds :
        /\ CorrectPassword(r) /\ reqs[r].pc = "done"
        /\ reqs[r].row.two_factor_secret = NULL
        /\ "user" \in DOMAIN reqs[r].res.body

\* ------------------------------------------------------------- directory
Last(q) == q[Len(q)]

\* The handler of r has run to its end: it answered, or it died without answering.
Finished(r) == reqs[r].pc \in {"done", "hung"}

\* The step is the callback of r's broadcast snapshot.
BroadcastRuns(r) == reqs[r].pc = "broadcast" /\ reqs'[r].pc # "broadcast"

C2_Step ==
    \A r \in ReqIds :
        (reqs[r].kind = "create" /\ BroadcastRuns(r))
            => \A c \in OpenClients :
                /\ Len(clients'[c].inbox) = Len(clients[c].inbox) + 1
                /\ Last(clients'[c].inbox).req = r
                /\ \A u \in users : u.id = reqs[r].id => u \in Last(clients'[c].inbox).allUsers

\* C2: when the entry of a create request has been inserted and the callback of its
\* broadcast runs, every observer connected then receives one envelope for that
\* request, and the snapshot in it holds the new entry.
C2_CreateFannedOut == [][C2_Step]_vars

\* The rows of the log that the handler of r inserted.
LogRowsOf(r) == {i \in DOMAIN logs : logs[i].req = r}

\* C3: every create, update and delete that committed has, once its handler is
\* through and unless the insert into the log itself failed, exactly one row in the
\* log, with its action, the id of the entry and the acting identity.
C3_OneEventPerMutation ==
    \A r \in ReqIds :
        (/\ reqs[r].kind \in {"create", "update", "delete"}
         /\ reqs[r].committed /\ Finished(r) /\ reqs[r].logErr # "err")
            => /\ Cardinality(LogRowsOf(r)) = 1
               /\ \A i \in LogRowsOf(r) :
                    /\ logs[i].action = reqs[r].kind
                    /\ logs[i].entity_id = reqs[r].id
                    /\ logs[i].user_id = reqs[r].userId

\* The email of request r is held by an entry other than the one r updates.
Collides(r) ==
    \E u \in users :
        u.email = reqs[r].email /\ (reqs[r].kind = "update" => u.id # reqs[r].id)

\* The step is the callback of r's email pre-check, and the query did not fail.
PrecheckRuns(r) ==
    /\ reqs[r].kind \in {"create", "update"}
    /\ reqs[r].pc = "check" /\ reqs'[r].pc # "check"
    /\ reqs'[r].precheck # "err"

C4_Step ==
    \A r \in ReqIds :
        PrecheckRuns(r) =>
            IF Collides(r)
            THEN /\ reqs'[r].pc = "done"
                 /\ reqs'[r].res.status = 400
                 /\ users' = users /\ nextId' = nextId
                 /\ logs' = logs
                 /\ clients' = clients
                 /\ \A i \in DOMAIN dbq' : dbq'[i].req # r
            ELSE reqs'[r].pc = "write"

C4_Rejected ==
    \A r \in ReqIds :
        reqs[r].precheck = "hit"
            => /\ reqs[r].pc = "done" /\ reqs[r].res.status = 400
               /\ ~reqs[r].committed
               /\ LogRowsOf(r) = {}
               /\ \A c \in ClientIds : \A i \in DOMAIN clients[c].inbox :
                      clients[c].inbox[i].req # r

\* C4: a create or update whose email is held by a different entry when its
\* pre-check runs (an update does not count the entry it updates) is answered 400
\* by that callback, which changes neither the registry nor the log, sends nothing
\* and issues no further query, and the request never does any of that later; one
\* whose email is not so held goes on to its write.
C4_ConflictRejected == [][C4_Step]_vars /\ []C4_Rejected

\* C4's case: a create and an update have both been rejected for their email.
C4_Witness ==
    \E r, q \in ReqIds :
        /\ reqs[r].kind = "create" /\ reqs[r].precheck = "hit" /\ reqs[r].res.status = 400
        /\ reqs[q].kind = "update" /\ reqs[q].precheck = "hit" /\ reqs[q].res.status = 400

\* C5: no two entries of the registry have the same email.
C5_EmailUnique ==
    \A u, v \in users : u.email = v.email => u = v

\* Nothing is in flight: no query is queued and every request has been answered.
Quiescent ==
    /\ dbq = <<>>
    /\ \A r \in ReqIds : reqs[r].pc \in {"idle", "done"}

\* C6: once all pending callbacks have run, the last snapshot every connected
\* observer received is the registry as it is.
C6_ObserversCurrent ==
    Quiescent =>
        \A c \in OpenClients :
            clients[c].inbox # <<>> => Last(clients[c].inbox).allUsers = users

\* C7: no element of the allUsers of a delivered envelope carries a password hash
\* or a second-factor secret.
C7_NoSecretsInEnvelopes ==
    \A c \in ClientIds : \A i \in DOMAIN clients[c].inbox :
        \A u \in clients[c].inbox[i].allUsers :
            /\ "password" \in DOMAIN u => u.password = NULL
            /\ "two_factor_secret" \in DOMAIN u => u.two_factor_secret = NULL

C8_Step ==
    \A r \in ReqIds :
        (reqs[r].thrower = 0 /\ reqs'[r].thrower # 0)
            => /\ reqs'[r].pc = "done"
               /\ reqs'[r].res.status \in {200, 201, 204}
               /\ \A c \in OpenClients \ {reqs'[r].thrower} :
                    /\ Len(clients'[c].inbox) = Len(clients[c].inbox) + 1
                    /\ Last(clients'[c].inbox).req = r

\* C8: when the send to one observer throws during a broadcast, the request that
\* triggered it is still answered with its success response and every other open
\* observer still receives the envelope.
C8_SendFailureContained == [][C8_Step]_vars

\* C11: a login whose query did not fail is answered with a token only when the
\* row it found carries the hash of the submitted password, and otherwise (no row
\* with that email, or a row with another hash or none) with 401 and the one
\* message "Invalid credentials".
C11_LoginGuarded ==
    \A r \in ReqIds :
        (reqs[r].kind = "login" /\ reqs[r].pc \notin {"query", "compare"}
            /\ reqs[r].res.status # 500)
            => IF CorrectPassword(r)
               THEN reqs[r].res.status = 200
               ELSE reqs[r].res = Res(401, ErrorBody("Invalid credentials"))

\* The token is signed and runs out ttl after the time at.
IssuedFor(t, at, ttl) == t.sig = "ok" /\ t.exp = at + ttl

\* The step answers request r.
Answers(r) == reqs[r].pc # "done" /\ reqs'[r].pc = "done"

C12_Step ==
    \A r \in ReqIds :
        /\ (Answers(r) /\ "tempToken" \in DOMAIN reqs'[r].res.body)
            => IssuedFor(reqs'[r].res.body.tempToken, now, PendingTtl)
        /\ (Answers(r) /\ "accessToken" \in DOMAIN reqs'[r].res.body)
            => IssuedFor(reqs'[r].res.body.accessToken, now, AccessTtl)
        /\ (reqs[r].pc = "idle" /\ reqs'[r].kind \in {"setup", "verify", "me"}
                /\ reqs'[r].token.sig = "ok")
            => IF now < reqs'[r].token.exp
               THEN /\ reqs'[r].pc = "query"
                    /\ reqs'[r].user.id = reqs'[r].token.id
                    /\ reqs'[r].user.email = reqs'[r].token.email
                    /\ reqs'[r].user.twoFactorVerified = reqs'[r].token.twoFactorVerified
               ELSE reqs'[r].res = Res(403, ErrorBody("Invalid or expired token"))

\* C12: every token the server issues runs out its ttl (5 minutes for a pending
\* token, 1 hour otherwise) after the moment it is issued, and authenticateToken
\* hands a signed token's id, email and verified flag to the handler while the
\* token has not run out and answers 403 once it has.
C12_TokenRoundTrip == [][C12_Step]_vars

\* The step is the callback of r's query for the stored secret, and it found one.
SecretChecked(r) ==
    /\ reqs[r].kind = "verify" /\ reqs[r].pc = "query" /\ reqs'[r].pc # "query"
    /\ reqs'[r].secret # NULL

C13_Step ==
    \A r \in ReqIds :
        SecretChecked(r) =>
            /\ reqs'[r].pc = "done"
            /\ reqs'[r].at = now
            /\ \E u \in users : u.id = reqs[r].user.id /\ u.two_factor_secret = reqs'[r].secret
            /\ IF \E k \in {now \div TotpStep - 1, now \div TotpStep, now \div TotpStep + 1} :
                      reqs[r].code = <<reqs'[r].secret, k>>
               THEN /\ reqs'[r].res.status = 200
                    /\ reqs'[r].res.body.accessToken.twoFactorVerified
                    /\ tokens' = tokens \cup {reqs'[r].res.body.accessToken}
               ELSE /\ reqs'[r].res = Res(401, ErrorBody("Invalid 2FA token"))
                    /\ tokens' = tokens

\* C13: when /2fa/verify checks a code against the stored secret of the token's
\* user, it answers with a verified token exactly when the code is that secret's
\* code for the current 30-second step, the one before or the one after; every other
\* code is answered 401 "Invalid 2FA token" and no token is issued.
C13_CodeWindow == [][C13_Step]_vars

\* C13's case: a code of the step before the current one has been accepted.
C13_Witness ==
    \E r \in ReqIds :
        /\ reqs[r].kind = "verify" /\ reqs[r].pc = "done" /\ reqs[r].secret # NULL
        /\ reqs[r].code = <<reqs[r].secret, reqs[r].at \div TotpStep - 1>>
        /\ reqs[r].res.status = 200

\* --------------------------------------------------------------- detector
\* The actors with at least n rows in the log that are less than two minutes old.
ActorsWith(n) ==
    {a \in {logs[i].user_id : i \in DOMAIN logs} \ {NullId, 0} :
        Cardinality({i \in DOMAIN logs :
            logs[i].user_id = a /\ now - logs[i].timestamp < WindowSecs}) >= n}

FlagsOf(table, a) == {i \in DOMAIN table : table[i].user_id = a}

\* The queued inserts of run k.
InsertsOf(q, k) == {i \in DOMAIN q : q[i].op = "flagInsert" /\ q[i].run = k}

C14_Step ==
    \A k \in DOMAIN runs :
        \* the SELECT of run k returns: one insert per actor with 11 rows or more
        /\ (runs[k].pc = "query" /\ runs'[k].pc \in {"insert", "done"})
            => /\ {row.user_id : row \in runs'[k].results} = ActorsWith(Threshold + 1)
               /\ {dbq'[i].row : i \in InsertsOf(dbq', k)} = runs'[k].results
               /\ Cardinality(InsertsOf(dbq', k)) = Cardinality(runs'[k].results)
               /\ monitored' = monitored
        \* an insert of run k runs and does not fail
        /\ (runs[k].pc = "insert" /\ runs'[k].pending < runs[k].pending
                /\ runs'[k].failed = runs[k].failed)
            => LET a == Head(dbq).row.user_id
               IN  /\ Cardinality(FlagsOf(monitored', a)) = 1
                   /\ FlagsOf(monitored, a) = {}
                        => /\ Len(monitored') = Len(monitored) + 1
                           /\ Last(monitored').user_id = a
                   /\ FlagsOf(monitored, a) # {} => monitored' = monitored
                   /\ \A i \in DOMAIN monitored : monitored'[i] = monitored[i]

\* No row of monitored_users is for an absent actor or for fewer than 11 actions.
C14_Flags ==
    \A i \in DOMAIN monitored :
        /\ monitored[i].user_id \notin {NullId, 0}
        /\ monitored[i].reason[2] >= Threshold + 1

Envelopes(table, r) ==
    UNION {{<<c, i>> : i \in {j \in DOMAIN table[c].inbox : table[c].inbox[j].req = r}} :
                c \in ClientIds}

\* The step is the callback of the write of directory request r.
WriteRuns(r) ==
    /\ reqs[r].kind \in {"create", "update", "delete"}
    /\ reqs[r].pc = "write" /\ reqs'[r].pc # "write"

C16_Step ==
    \A r \in ReqIds :
        WriteRuns(r) =>
            \* no entry has the id: the write cannot commit
            /\ (reqs[r].kind # "create" /\ \A u \in users : u.id # reqs[r].id)
                => reqs'[r].pc = "done"
            \* the write did not commit
            /\ reqs'[r].pc = "done"
                => /\ users' = users
                   /\ logs' = logs
                   /\ clients' = clients
                   /\ \A i \in DOMAIN dbq' : dbq'[i].req # r
                   /\ ~reqs'[r].committed
                   /\ DOMAIN reqs'[r].res.body = {"error"}
                   /\ IF reqs[r].kind # "create" /\ \A u \in users : u.id # reqs[r].id
                      THEN reqs'[r].res.status \in {404, 500}
                      ELSE reqs'[r].res.status = 500
                   /\ reqs'[r].res.status = 404
                        => reqs'[r].res.body.error = "User not found"
                   /\ reqs'[r].res.status = 500
                        => reqs'[r].res.body.error \in {"Server error", "Failed to delete user"}

\* A request whose write did not commit has no row in the log and no envelope.
C16_NoTrace ==
    \A r \in ReqIds :
        (reqs[r].kind \in {"create", "update", "delete"} /\ ~reqs[r].committed)
            => LogRowsOf(r) = {} /\ Envelopes(clients, r) = {}

\* C16: when the callback of a create's INSERT, an update's UPDATE or a delete's
\* DELETE ends the request (the store reported an error, or no row has the id), the
\* answer is 404 "User not found" or 500 with a fixed message, 404 only when no row
\* has the id; the registry, the log and the observers' inboxes are as before and no
\* further query is issued; such a request never has a row in the log or an envelope.
\* An update or delete of an id no row has always ends this way.
C16_FailedWrite == [][C16_Step]_vars /\ []C16_NoTrace

\* C16's case: a delete of an id no entry has was answered 404, and the write of an
\* update failed and was answered 500.
C16_Witness ==
    \E r, q \in ReqIds :
        /\ reqs[r].kind = "delete" /\ reqs[r].res.status = 404
        /\ reqs[q].kind = "update" /\ reqs[q].precheck = "miss" /\ reqs[q].res.status = 500

\* -------------------------------------------------------------- observers
InitialData(c) == {i \in DOMAIN clients[c].inbox : clients[c].inbox[i].type = "INITIAL_DATA"}

\* C17: the first envelope in every observer's inbox is its INITIAL_DATA envelope,
\* with data null, and no observer has more than one of them.
C17_InitialDataFirst ==
    \A c \in ClientIds :
        /\ Cardinality(InitialData(c)) <= 1
        /\ clients[c].inbox # <<>>
            => /\ clients[c].inbox[1].type = "INITIAL_DATA"
               /\ clients[c].inbox[1].data = NullData

\* ------------------------------------------------------------ middleware
\* Request r is for an endpoint behind authenticateToken, and the middleware did
\* not hand it on: req.user was never set.
Turned(r) ==
    /\ reqs[r].kind \in {"setup", "verify", "me"}
    /\ reqs[r].user = NoToken

\* C18: a request to /2fa/setup, /2fa/verify or /users/me whose token is missing,
\* not signed with the server's secret or expired is answered at once, issues no
\* query and changes nothing, and every such request gets the same answer.
C18_UniformRejection ==
    \A r, q \in ReqIds :
        (Turned(r) /\ Turned(q))
            => /\ reqs[r].pc = "done" /\ ~reqs[r].committed
               /\ \A i \in DOMAIN dbq : dbq[i].req # r
               /\ reqs[r].res.status # 0
               /\ reqs[r].res = reqs[q].res

\* C19: a directory create, update or delete that has changed the registry, has a
\* row in the log or has an envelope in an inbox came with a token that is signed
\* with the server's secret.
C19_AuthBeforeMutation ==
    \A r \in ReqIds :
        (/\ reqs[r].kind \in {"create", "update", "delete"}
         /\ (reqs[r].committed \/ LogRowsOf(r) # {} \/ Envelopes(clients, r) # {}))
            => reqs[r].token.sig = "ok"

C20_Step ==
    \A r \in ReqIds :
        BroadcastRuns(r) => reqs[r].committed /\ reqs[r].logErr # "none"

\* C20: when the snapshot query of a directory request's broadcast runs (and with
\* it the sends), the request's write to the registry has committed and its insert
\* into the log has completed.
C20_BroadcastAfterLog == [][C20_Step]_vars

\* ---------------------------------------------------------------- snapshots
\* The envelopes that the step appends to the inbox of c.
Delivered(c) ==
    {clients'[c].inbox[i] : i \in DOMAIN clients'[c].inbox \ DOMAIN clients[c].inbox}

C21_Step ==
    \A r \in ReqIds :
        BroadcastRuns(r) =>
            /\ reqs[r].committed
            /\ \A c \in ClientIds : \A env \in Delivered(c) :
                /\ env.req = r
                /\ env.allUsers = users
                /\ users' = users

\* C21: the envelopes a broadcast sends are sent by the callback of its snapshot
\* query, which runs after the write of its request has committed, and their
\* allUsers is the whole registry as it is when that callback runs.
C21_FreshSnapshot == [][C21_Step]_vars

\* C21's case: the envelope of one request shows the entry that a create which
\* committed after that request's own write had added.
C21_Witness ==
    \E r, q \in ReqIds : \E c \in ClientIds : \E i \in DOMAIN clients[c].inbox :
        /\ r # q
        /\ reqs[r].kind = "create" /\ reqs[r].committed
        /\ reqs[q].kind \in {"update", "delete"} /\ reqs[q].committed
        /\ clients[c].inbox[i].req = q
        /\ \E u \in clients[c].inbox[i].allUsers : u.id = reqs[r].id

\* ------------------------------------------------------------ detector runs
InProgress == {k \in DOMAIN runs : runs[k].pc \in {"query", "insert"}}

\* C22: at most one run of the detector is in progress (its query or an insert it
\* issued still queued) at any time.
C22_NoOverlap == Cardinality(InProgress) <= 1

C23_Step ==
    \A k \in DOMAIN runs :
        (runs[k].pc = "query" /\ runs'[k].pc = "failed")
            => /\ monitored' = monitored
               /\ InsertsOf(dbq', k) = {}
               /\ timer' = timer

C23_Failed ==
    /\ \A k \in DOMAIN runs :
        runs[k].pc = "failed"
            => runs[k].results = {} /\ runs[k].pending = 0 /\ InsertsOf(dbq, k) = {}
    /\ \A k \in DOMAIN runs : runs[k].failed <= Cardinality(runs[k].results)
    /\ Len(runs) < MaxTicks => ENABLED Tick

\* C23: the callback of a failed log query changes no flag and issues no insert,
\* and the run has none afterwards; whatever has failed in the runs so far, the
\* timer stays set and its next firing starts a run.
C23_FailureContained == [][C23_Step]_vars /\ []C23_Failed

\* C23's case: the query of one run failed, and the run after it found an actor
\* and flagged it.
C23_Witness ==
    \E k \in DOMAIN runs :
        /\ runs[k].pc = "failed"
        /\ k + 1 \in DOMAIN runs
        /\ runs[k + 1].pc = "done" /\ runs[k + 1].results # {} /\ runs[k + 1].failed = 0
        /\ \A row \in runs[k + 1].results : FlagsOf(monitored, row.user_id) # {}

C24_Step ==
    \A r \in ReqIds :
        (/\ reqs[r].kind \in {"update", "delete"}
         /\ reqs[r].committed /\ reqs[r].logErr = "err"
         /\ BroadcastRuns(r))
            => /\ reqs'[r].pc = "done"
               /\ reqs'[r].res = SuccessRes(r)
               /\ \A c \in OpenClients : \E env \in Delivered(c) : env.req = r

\* C24: an update or delete that committed and whose insert into the log failed is
\* answered with its success response when the callback of its broadcast runs, and
\* every observer connected then is sent the envelope.
C24_LogFailureNonFatal == [][C24_Step]_vars

\* C25: the token that /2fa/verify answers with has the id and email of the token
\* presented, carries the verified flag, and runs out one hour after the moment of
\* the verification.
C25_FreshExpiry ==
    \A r \in ReqIds :
        (reqs[r].kind = "verify" /\ reqs[r].pc = "done" /\ reqs[r].res.status = 200)
            => /\ reqs[r].res.body.accessToken.id = reqs[r].token.id
               /\ reqs[r].res.body.accessToken.email = reqs[r].token.email
               /\ reqs[r].res.body.accessToken.twoFactorVerified
               /\ reqs[r].res.body.accessToken.exp = reqs[r].at + AccessTtl

\* ---------------------------------------------------------------- enrollment
C26_Step ==
    \A r \in ReqIds :
        (reqs[r].kind = "setup" /\ Answers(r) /\ reqs'[r].res.status = 200)
            => /\ reqs'[r].res.body.secret = reqs[r].secret
               /\ \E u \in users :
                    u.id = reqs[r].user.id /\ u.two_factor_secret = reqs[r].secret

\* C26: when /2fa/setup answers with a secret, the row of the token's user holds
\* that secret, so that a login of that user from then on is challenged and its
\* codes are checked against it.
C26_EnrollmentPersisted == [][C26_Step]_vars

\* ---------------------------------------------------------------- one response
\* C27: no create, update or delete request is left without a response: none
\* of them ends in the state where its handler has stopped and nothing was
\* answered, whatever the store calls and the sends did.
C27_AlwaysAnswered ==
    \A r \in ReqIds :
        reqs[r].kind \in {"create", "update", "delete"} => reqs[r].pc # "hung"

====
